---- MODULE Spec2Model ----
(***************************************************************************)
(* OpenstackUserManager (openstack_user_manager/manager.py): a client that *)
(* forwards each public operation to remote identity and network calls.    *)
(* The model keeps the remote account as the state, runs each public       *)
(* operation as one action, and records in `last` what the operation       *)
(* returned and which remote calls it issued, in order.                    *)
(***************************************************************************)
EXTENDS Integers, Sequences, FiniteSets, TLC

\* ------------------------------------------------------------------ inputs
ProjNames == {"proj1", "proj2"}
UserNames == {"alice"}
RoleNames == {"member", "ghost"}
Passwords == {"pw1", "pw2"}
ExtNames  == {"ext", "private", "nope"}

\* Roles are never created by this client: the remote account has these.
Roles == {"member"}

\* Caller-supplied properties, in the iteration order of properties.items().
PropA == [key |-> "a", value |-> 1]
PropB == [key |-> "b", value |-> 2]
Keys == {"a", "b"}
PropLists == {<< >>, <<PropA>>, <<PropA, PropB>>, <<PropB, PropA>>}

\* How many private networks init_network may create, and how many rules
\* add_ssh_rule may create, before the model stops taking the action.
MaxNets == 2
MaxRules == 2

\* How a lookup of a name that does not exist remotely is signalled.
MissSignals == {"None", "NotFound"}

\* Exceptions a remote identity call / a remote network call can raise
\* besides NotFound.
IdFault == "ClientException"
NetFaults == {"NeutronException", "ClientException"}

\* What a call handed a None argument is rejected with (library-defined).
NullArgFaults == {"ClientException", "InvalidRequest"}

VARIABLES
    projects,      \* names of the projects that exist remotely
    projEnabled,   \* project name -> enabled flag
    projProps,     \* project name -> (key -> value, 0 when unset)
    users,         \* names of the users that exist remotely
    userEnabled,   \* user name -> enabled flag
    userPassword,  \* user name -> password last written
    grants,        \* set of <<user, project, role>>
    networks,      \* listing of networks: [id, name, project_id]
    subnets,       \* [id, network_id]
    routers,       \* [id, gateway, tenant_id]
    interfaces,    \* [router_id, subnet_id, tenant_id]
    secgroups,     \* listing of security groups: [id, project_id]
    rules,         \* [security_group_id, project_id]
    created,       \* <<kind, name>> for which a create call returned True
    last           \* the last public operation: what it returned and called

identityVars == <<projects, projEnabled, projProps, users, userEnabled,
                  userPassword, grants, created>>
networkVars == <<networks, subnets, routers, interfaces>>
sshVars == <<secgroups, rules>>
vars == <<identityVars, networkVars, sshVars, last>>

\* ------------------------------------------------------------ exceptions
\* The except clauses of each public operation: what is turned into False.
KaExceptions == {"NotFound", "ClientException"}

Caught(op) ==
    CASE op \in {"check_username_availability",
                 "check_projectname_availability"} -> {}
      [] op = "pair_user_with_project" ->
            {"NotFound", "ClientException", "NeutronException",
             "InvalidRequest", "AttributeError", "IndexError"}
      [] op = "init_network" -> KaExceptions \cup {"NeutronException"}
      [] OTHER -> KaExceptions

\* An operation whose try block raised exc: False when a handler catches it,
\* otherwise the exception leaves the operation.
Raised(op, exc, calls) ==
    IF exc \in Caught(op)
    THEN [result |-> "False", exc |-> exc, calls |-> calls]
    ELSE [result |-> "raise", exc |-> exc, calls |-> calls]

Returned(res, calls) == [result |-> res, exc |-> "none", calls |-> calls]

Call(api, arg) == [api |-> api, arg |-> arg]

Record(op, args, out) ==
    [op |-> op, args |-> args, result |-> out.result, exc |-> out.exc,
     calls |-> out.calls]

\* ------------------------------------------------------------------ Init
ProjId(p) == p

ExternalNetworks == << [id |-> 1, name |-> "ext", project_id |-> "admin"] >>

SecGroupListings ==
    { << >>,
      << [id |-> 1, project_id |-> "other"] >>,
      << [id |-> 1, project_id |-> "proj1"] >>,
      << [id |-> 1, project_id |-> "proj1"], [id |-> 2, project_id |-> "proj2"],
         [id |-> 3, project_id |-> "proj1"] >> }

NoProps == [k \in Keys |-> 0]

Init ==
    /\ projects \in SUBSET ProjNames
    /\ projEnabled = [p \in ProjNames |-> p \in projects]
    /\ projProps = [p \in ProjNames |-> NoProps]
    /\ users \in SUBSET UserNames
    /\ userEnabled = [u \in UserNames |-> u \in users]
    /\ userPassword = [u \in UserNames |-> "pw1"]
    /\ grants = {}
    /\ networks = ExternalNetworks
    /\ subnets = << >>
    /\ routers = << >>
    /\ interfaces = << >>
    /\ secgroups \in SecGroupListings
    /\ rules = << >>
    /\ created = {}
    /\ last = [op |-> "init", args |-> << >>, result |-> "none",
               exc |-> "none", calls |-> << >>]

\* ------------------------------------------------- availability checks
\* find_user / find_project: the entity, None, or an exception.
CheckOutcome(op, api, name, exists, miss, at) ==
    LET calls == << Call(api, name) >> IN
    IF at = 1 THEN Raised(op, IdFault, calls)
    ELSE IF exists THEN Returned("False", calls)
    ELSE IF miss = "NotFound"
         THEN [result |-> "True", exc |-> "NotFound", calls |-> calls]
         ELSE Returned("True", calls)

check_username_availability(n, miss, at) ==
    /\ last' = Record("check_username_availability", <<n>>,
                      CheckOutcome("check_username_availability", "find_user",
                                   n, n \in users, miss, at))
    /\ UNCHANGED <<identityVars, networkVars, sshVars>>

check_projectname_availability(n, miss, at) ==
    /\ last' = Record("check_projectname_availability", <<n>>,
                      CheckOutcome("check_projectname_availability",
                                   "find_project", n, n \in projects, miss, at))
    /\ UNCHANGED <<identityVars, networkVars, sshVars>>

\* ------------------------------------------------------- create_project
\* The properties the first k update calls of props have written.
ApplyProps(old, props, k) ==
    [key \in Keys |->
        IF \E i \in 1..k : props[i].key = key
        THEN props[CHOOSE i \in 1..k :
                     /\ props[i].key = key
                     /\ \A j \in (i+1)..k : props[j].key # key].value
        ELSE old[key]]

UpdateCalls(n, props, k) == [i \in 1..k |-> Call("update_project", props[i].key)]

\* at = 0: no remote call fails; at = i: the i-th remote call issued fails.
\* The remote refuses to create a second project of the same name.
CreateProjectOutcome(n, props, at) ==
    LET c1 == << Call("create_project", n) >>
        c2 == Append(c1, Call("find_project", n))
    IN  IF at = 1 \/ n \in projects THEN Raised("create_project", IdFault, c1)
        ELSE IF at = 2 THEN Raised("create_project", IdFault, c2)
        ELSE IF at = 0
             THEN Returned("True", c2 \o UpdateCalls(n, props, Len(props)))
             ELSE Raised("create_project", IdFault,
                         c2 \o UpdateCalls(n, props, at - 2))

\* A variant that undoes the applied properties when an update fails.
PropsApplied_Rollback(props, at) == IF at = 0 THEN Len(props) ELSE 0

\* How many property updates completed.
PropsApplied(props, at) ==
    IF at = 0 THEN Len(props) ELSE IF at >= 3 THEN at - 3 ELSE 0

create_project(n, props, enabled, at) ==
    LET out == CreateProjectOutcome(n, props, at)
        made == Len(out.calls) >= 2
    IN  /\ at <= 2 + Len(props)
        /\ last' = Record("create_project", <<n, props>>, out)
        /\ projects' = IF made THEN projects \cup {n} ELSE projects
        /\ projEnabled' = IF made THEN [projEnabled EXCEPT ![n] = enabled]
                          ELSE projEnabled
        /\ projProps' = IF made
                        THEN [projProps EXCEPT
                                ![n] = ApplyProps(NoProps, props,
                                                  PropsApplied(props, at))]
                        ELSE projProps
        /\ created' = IF out.result = "True"
                      THEN created \cup {<<"project", n>>} ELSE created
        /\ UNCHANGED <<users, userEnabled, userPassword, grants,
                       networkVars, sshVars>>

\* ---------------------------------------------------------- create_user
CreateUserOutcome(n, at) ==
    LET c1 == << Call("create_user", n) >>
    IN  IF at = 1 \/ n \in users THEN Raised("create_user", IdFault, c1)
        ELSE Returned("True", c1)

create_user(n, password, enabled, at) ==
    LET out == CreateUserOutcome(n, at)
        made == out.result = "True"
    IN  /\ last' = Record("create_user", <<n>>, out)
        /\ users' = IF made THEN users \cup {n} ELSE users
        /\ userEnabled' = IF made THEN [userEnabled EXCEPT ![n] = enabled]
                          ELSE userEnabled
        /\ userPassword' = IF made THEN [userPassword EXCEPT ![n] = password]
                           ELSE userPassword
        /\ created' = IF made THEN created \cup {<<"user", n>>} ELSE created
        /\ UNCHANGED <<projects, projEnabled, projProps, grants,
                       networkVars, sshVars>>

\* ------------------------------------------------- pair_user_with_project
\* A lookup inside a try block: "found", "None", or the exception it raises.
Find(exists, miss, faulty) ==
    IF faulty THEN IdFault
    ELSE IF exists THEN "found"
    ELSE IF miss = "NotFound" THEN "NotFound" ELSE "None"

IsValue(r) == r \in {"found", "None"}

PairOutcome(u, p, r, miss, at) ==
    LET op == "pair_user_with_project"
        fu == Find(u \in users, miss, at = 1)
        fp == Find(p \in projects, miss, at = 2)
        fr == Find(r \in Roles, miss, at = 3)
        c1 == << Call("find_user", u) >>
        c2 == Append(c1, Call("find_project", p))
        c3 == Append(c2, Call("find_role", r))
        c4 == Append(c3, Call("roles.grant",
                              IF fr = "found" THEN r ELSE "None"))
    IN  IF ~IsValue(fu) THEN Raised(op, fu, c1)
        ELSE IF ~IsValue(fp) THEN Raised(op, fp, c2)
        ELSE IF ~IsValue(fr) THEN Raised(op, fr, c3)
        ELSE IF at = 4 \/ "None" \in {fu, fp, fr} THEN Raised(op, IdFault, c4)
        ELSE Returned("True", c4)

pair_user_with_project(u, p, r, miss, at) ==
    LET out == PairOutcome(u, p, r, miss, at)
    IN  /\ last' = Record("pair_user_with_project", <<u, p, r>>, out)
        /\ grants' = IF out.result = "True" THEN grants \cup {<<u, p, r>>}
                     ELSE grants
        /\ UNCHANGED <<projects, projEnabled, projProps, users, userEnabled,
                       userPassword, created, networkVars, sshVars>>

\* ------------------------------------------ update_*_status / password
\* find, then update: the update call is issued with whatever find returned.
UpdateOutcome(op, findApi, updateApi, name, exists, miss, at, nullFault) ==
    LET f == Find(exists, miss, at = 1)
        c1 == << Call(findApi, name) >>
        c2 == Append(c1, Call(updateApi, IF f = "found" THEN name ELSE "None"))
    IN  IF ~IsValue(f) THEN Raised(op, f, c1)
        ELSE IF f = "None" THEN Raised(op, nullFault, c2)
        ELSE IF at = 2 THEN Raised(op, IdFault, c2)
        ELSE Returned("True", c2)

update_project_status(p, enabled, miss, at, nullFault) ==
    LET out == UpdateOutcome("update_project_status", "find_project",
                             "update_project", p, p \in projects, miss, at,
                             nullFault)
    IN  /\ last' = Record("update_project_status", <<p>>, out)
        /\ projEnabled' = IF out.result = "True"
                          THEN [projEnabled EXCEPT ![p] = enabled]
                          ELSE projEnabled
        /\ UNCHANGED <<projects, projProps, users, userEnabled, userPassword,
                       grants, created, networkVars, sshVars>>

update_user_status(u, enabled, miss, at, nullFault) ==
    LET out == UpdateOutcome("update_user_status", "find_user", "update_user",
                             u, u \in users, miss, at, nullFault)
    IN  /\ last' = Record("update_user_status", <<u>>, out)
        /\ userEnabled' = IF out.result = "True"
                          THEN [userEnabled EXCEPT ![u] = enabled]
                          ELSE userEnabled
        /\ UNCHANGED <<projects, projEnabled, projProps, users, userPassword,
                       grants, created, networkVars, sshVars>>

update_user_password(u, password, miss, at, nullFault) ==
    LET out == UpdateOutcome("update_user_password", "find_user",
                             "update_user", u, u \in users, miss, at,
                             nullFault)
    IN  /\ last' = Record("update_user_password", <<u>>, out)
        /\ userPassword' = IF out.result = "True"
                           THEN [userPassword EXCEPT ![u] = password]
                           ELSE userPassword
        /\ UNCHANGED <<projects, projEnabled, projProps, users, userEnabled,
                       grants, created, networkVars, sshVars>>

\* --------------------------------------------------------- init_network
PrivateNets == SelectSeq(networks, LAMBDA e : e.name = "private")

\* A variant that takes the first listed network whatever its name.
NetworksNamed_Any(listing, name) == listing

\* [e for e in list_networks()['networks'] if e['name'] == name]
NetworksNamed(listing, name) == SelectSeq(listing, LAMBDA e : e.name = name)

InitNetworkRun(p, ext, miss, at, nf) ==
    LET op == "init_network"
        f == Find(p \in projects, miss, at = 1)
        c1 == << Call("find_project", p) >>
        netId == Len(networks) + 1
        nets == Append(networks, [id |-> netId, name |-> "private",
                                  project_id |-> ProjId(p)])
        c2 == Append(c1, Call("create_network", ProjId(p)))
        subId == Len(subnets) + 1
        subs == Append(subnets, [id |-> subId, network_id |-> netId])
        c3 == Append(c2, Call("create_subnet", netId))
        c4 == Append(c3, Call("list_networks", "all"))
        found == NetworksNamed(nets, ext)
        rtrId == Len(routers) + 1
        rtrs == Append(routers, [id |-> rtrId, gateway |-> found[1].id,
                                 tenant_id |-> ProjId(p)])
        c5 == Append(c4, Call("create_router", ProjId(p)))
        ifs == Append(interfaces, [router_id |-> rtrId, subnet_id |-> subId,
                                   tenant_id |-> ProjId(p)])
        c6 == Append(c5, Call("add_interface_router", rtrId))
        State(out, n, s, r, i) ==
            [out |-> out, networks |-> n, subnets |-> s, routers |-> r,
             interfaces |-> i]
    IN  IF ~IsValue(f)
        THEN State(Raised(op, f, c1), networks, subnets, routers, interfaces)
        ELSE IF f = "None"
        THEN State(Raised(op, "AttributeError", c1),
                   networks, subnets, routers, interfaces)
        ELSE IF at = 2
        THEN State(Raised(op, nf, c2), networks, subnets, routers, interfaces)
        ELSE IF at = 3
        THEN State(Raised(op, nf, c3), nets, subnets, routers, interfaces)
        ELSE IF at = 4
        THEN State(Raised(op, nf, c4), nets, subs, routers, interfaces)
        ELSE IF Len(found) = 0
        THEN State(Raised(op, "IndexError", c4), nets, subs, routers, interfaces)
        ELSE IF at = 5
        THEN State(Raised(op, nf, c5), nets, subs, routers, interfaces)
        ELSE IF at = 6
        THEN State(Raised(op, nf, c6), nets, subs, rtrs, interfaces)
        ELSE State(Returned("True", c6), nets, subs, rtrs, ifs)

\* A variant that removes what it created when a step fails.
init_network_Cleanup(p, ext, miss, at, nf) ==
    LET run == InitNetworkRun(p, ext, miss, at, nf)
        ok == run.out.result = "True"
    IN  /\ Len(PrivateNets) < MaxNets
        /\ last' = Record("init_network", <<p, ext>>, run.out)
        /\ networks' = IF ok THEN run.networks ELSE networks
        /\ subnets' = IF ok THEN run.subnets ELSE subnets
        /\ routers' = IF ok THEN run.routers ELSE routers
        /\ interfaces' = run.interfaces
        /\ UNCHANGED <<identityVars, sshVars>>

\* A variant that returns without attaching the subnet to the router.
init_network_NoAttach(p, ext, miss, at, nf) ==
    LET run == InitNetworkRun(p, ext, miss, at, nf)
    IN  /\ Len(PrivateNets) < MaxNets
        /\ last' = Record("init_network", <<p, ext>>, run.out)
        /\ networks' = run.networks
        /\ subnets' = run.subnets
        /\ routers' = run.routers
        /\ interfaces' = interfaces
        /\ UNCHANGED <<identityVars, sshVars>>

init_network(p, ext, miss, at, nf) ==
    LET run == InitNetworkRun(p, ext, miss, at, nf)
    IN  /\ Len(PrivateNets) < MaxNets
        /\ last' = Record("init_network", <<p, ext>>, run.out)
        /\ networks' = run.networks
        /\ subnets' = run.subnets
        /\ routers' = run.routers
        /\ interfaces' = run.interfaces
        /\ UNCHANGED <<identityVars, sshVars>>

\* --------------------------------------------------------- add_ssh_rule
\* A variant of the loop's test that takes every listed group.
Matching_Any(listing, pid) == 1..Len(listing)

\* The for loop over the listing: the id of the last group of the project.
Matching(listing, pid) == {i \in 1..Len(listing) : listing[i].project_id = pid}

\* A variant that stops at the first group of the project.
LastMatch_First(listing, pid) ==
    CHOOSE i \in Matching(listing, pid) : \A j \in Matching(listing, pid) : i <= j

LastMatch(listing, pid) ==
    CHOOSE i \in Matching(listing, pid) : \A j \in Matching(listing, pid) : j <= i

AddSshRuleRun(p, miss, at, nf) ==
    LET op == "add_ssh_rule"
        f == Find(p \in projects, miss, at = 1)
        c1 == << Call("find_project", p) >>
        c2 == Append(c1, Call("security_groups", "all"))
        gid == secgroups[LastMatch(secgroups, ProjId(p))].id
        c3 == Append(c2, Call("create_security_group_rule", gid))
        rule == [security_group_id |-> gid, project_id |-> ProjId(p)]
        State(out, r) == [out |-> out, rules |-> r]
    IN  IF ~IsValue(f) THEN State(Raised(op, f, c1), rules)
        ELSE IF at = 2 THEN State(Raised(op, nf, c2), rules)
        ELSE IF f = "None"
        THEN IF Len(secgroups) > 0
             THEN State(Raised(op, "AttributeError", c2), rules)
             ELSE State(Returned("True", c2), rules)
        ELSE IF Matching(secgroups, ProjId(p)) = {}
        THEN State(Returned("True", c2), rules)
        ELSE IF at = 3 THEN State(Raised(op, nf, c3), rules)
        ELSE State(Returned("True", c3), Append(rules, rule))

add_ssh_rule(p, miss, at, nf) ==
    LET run == AddSshRuleRun(p, miss, at, nf)
    IN  /\ Len(rules) < MaxRules
        /\ last' = Record("add_ssh_rule", <<p>>, run.out)
        /\ rules' = run.rules
        /\ UNCHANGED <<identityVars, networkVars, secgroups>>

\* ------------------------------------------------------- specifications
NextAccounts ==
    \/ \E n \in UserNames, miss \in MissSignals, at \in 0..1 :
          check_username_availability(n, miss, at)
    \/ \E n \in ProjNames, miss \in MissSignals, at \in 0..1 :
          check_projectname_availability(n, miss, at)
    \/ \E n \in ProjNames, props \in PropLists, enabled \in BOOLEAN,
          at \in 0..4 : create_project(n, props, enabled, at)
    \/ \E n \in UserNames, pw \in Passwords, enabled \in BOOLEAN,
          at \in 0..1 : create_user(n, pw, enabled, at)

NextPair ==
    \E u \in UserNames, p \in ProjNames, r \in RoleNames,
       miss \in MissSignals, at \in 0..4 :
       pair_user_with_project(u, p, r, miss, at)

NextUpdate ==
    \/ \E p \in ProjNames, enabled \in BOOLEAN, miss \in MissSignals,
          at \in 0..2, nullFault \in NullArgFaults :
          update_project_status(p, enabled, miss, at, nullFault)
    \/ \E u \in UserNames, enabled \in BOOLEAN, miss \in MissSignals,
          at \in 0..2, nullFault \in NullArgFaults :
          update_user_status(u, enabled, miss, at, nullFault)
    \/ \E u \in UserNames, pw \in Passwords, miss \in MissSignals,
          at \in 0..2, nullFault \in NullArgFaults :
          update_user_password(u, pw, miss, at, nullFault)

NextNetwork ==
    \E p \in ProjNames, ext \in ExtNames, miss \in MissSignals, at \in 0..6,
       nf \in NetFaults : init_network(p, ext, miss, at, nf)

NextSsh ==
    \E p \in ProjNames, miss \in MissSignals, at \in 0..3, nf \in NetFaults :
       add_ssh_rule(p, miss, at, nf)

Next == NextAccounts \/ NextPair \/ NextUpdate \/ NextNetwork \/ NextSsh

Spec == Init /\ [][Next]_vars

\* The operations of one area at a time, the rest of the account held fixed.
InitIdentity == Init /\ secgroups = << >>

InitNetwork == Init /\ users = {} /\ secgroups = << >>

InitSsh == Init /\ users = {}

SpecAccounts == InitIdentity /\ [][NextAccounts]_vars

SpecPair == InitIdentity /\ [][NextPair]_vars

SpecUpdate == InitIdentity /\ [][NextUpdate]_vars

SpecNetwork == InitNetwork /\ [][NextNetwork]_vars

SpecSsh == InitSsh /\ [][NextSsh]_vars

\* ------------------------------------------------ reading the last record
\* Exceptions that come out of a remote call (the last call issued).
RemoteFaults == {"NotFound", "ClientException", "NeutronException",
                 "InvalidRequest"}

Issued(rec, api) == \E i \in 1..Len(rec.calls) : rec.calls[i].api = api

\* The i-th call of rec was issued and came back without raising.
Completed(rec, i) ==
    /\ i <= Len(rec.calls)
    /\ i = Len(rec.calls) => rec.exc \notin RemoteFaults

IsPrefix(s, t) == Len(s) <= Len(t) /\ \A i \in 1..Len(s) : s[i] = t[i]

GrewBy(old, new, k) == IsPrefix(old, new) /\ Len(new) = Len(old) + k

Boolean(rec) == rec.result \in {"True", "False"}

\* ------------------------------------------------------------------- C1
\* C1: while no user (project) named n exists remotely the availability
\* check of n returns true, and once create_user / create_project has
\* returned true for n every later availability check of n returns false.
C1_Availability ==
    /\ last.op = "check_username_availability" =>
          /\ last.args[1] \notin users => last.result = "True"
          /\ <<"user", last.args[1]>> \in created => last.result = "False"
    /\ last.op = "check_projectname_availability" =>
          /\ last.args[1] \notin projects => last.result = "True"
          /\ <<"project", last.args[1]>> \in created => last.result = "False"

\* ------------------------------------------------------------------- C2
\* C2: every public operation ends by returning a boolean whatever the
\* remote calls do; the only exception that crosses the boundary is the
\* IndexError of init_network when no network has the external name.
C2_Boundary ==
    last.op # "init" =>
        \/ Boolean(last)
        \/ last.op = "init_network" /\ last.exc = "IndexError"

\* ------------------------------------------------------------------- C3
\* C3: in create_project, when creation succeeded and the update call of
\* the k-th property failed, the operation returns false, the project
\* exists, exactly the first k-1 properties are set on it, the k-th update
\* is the last call issued, and nothing applied is undone.
C3_Case ==
    /\ last.op = "create_project"
    /\ Len(last.calls) >= 3
    /\ last.exc \in RemoteFaults

C3_PartialFailure ==
    C3_Case =>
        LET n == last.args[1]
            props == last.args[2]
            k == Len(last.calls) - 2
        IN  /\ last.result = "False"
            /\ n \in projects
            /\ k <= Len(props)
            /\ \A i \in 1..k :
                  last.calls[2 + i] = Call("update_project", props[i].key)
            /\ \A i \in 1..(k - 1) : projProps[n][props[i].key] = props[i].value
            /\ \A key \in Keys :
                  (\A i \in 1..(k - 1) : props[i].key # key)
                      => projProps[n][key] = 0

\* The update of b failed after the update of a: only a is set.
C3_Witness ==
    /\ C3_Case
    /\ last.args[2] = <<PropA, PropB>>
    /\ Len(last.calls) = 4
    /\ projProps[last.args[1]]["a"] = 1
    /\ projProps[last.args[1]]["b"] = 0

\* ------------------------------------------------------------------- C4
\* C4: pair_user_with_project with a role name that does not exist
\* remotely returns false and issues no role-grant call, so no grant of
\* that role appears; a grant call is issued only after the user, project
\* and role lookups have all resolved to existing entities.
C4_NoGrantCall ==
    last.op = "pair_user_with_project" =>
        /\ last.args[3] \notin Roles =>
              /\ last.result = "False"
              /\ ~Issued(last, "roles.grant")
              /\ <<last.args[1], last.args[2], last.args[3]>> \notin grants
        /\ Issued(last, "roles.grant") =>
              /\ last.args[1] \in users
              /\ last.args[2] \in projects
              /\ last.args[3] \in Roles

\* ------------------------------------------------------------------- C5
\* C5: init_network issues its steps in the fixed order resolve project,
\* create network, create subnet, list networks and create router, attach
\* interface; a step is issued only after all earlier steps succeeded; when
\* a step fails no later step is issued, and what the earlier steps
\* created stays (nothing is ever removed).
InitSteps == <<"find_project", "create_network", "create_subnet",
               "list_networks", "create_router", "add_interface_router">>

C5_Order ==
    last.op = "init_network" =>
        /\ Len(last.calls) <= Len(InitSteps)
        /\ \A i \in 1..Len(last.calls) : last.calls[i].api = InitSteps[i]
        /\ last.args[1] \notin projects => Len(last.calls) = 1
        /\ last.result = "True" <=>
              (Len(last.calls) = Len(InitSteps) /\ last.exc = "none")

Count(b) == IF b THEN 1 ELSE 0

C5_Committed ==
    last'.op = "init_network" =>
        /\ GrewBy(networks, networks', Count(Completed(last', 2)))
        /\ GrewBy(subnets, subnets', Count(Completed(last', 3)))
        /\ GrewBy(routers, routers', Count(Completed(last', 5)))
        /\ GrewBy(interfaces, interfaces', Count(Completed(last', 6)))

C5_StepOrder == [](C5_Order) /\ [][C5_Committed]_vars

\* Router creation failed: the network and the subnet are there, no router.
C5_Witness ==
    /\ last.op = "init_network"
    /\ last.result = "False"
    /\ Len(last.calls) = 5
    /\ Len(PrivateNets) = 1
    /\ Len(subnets) = 1
    /\ routers = << >>

\* ------------------------------------------------------------------- C6
\* C6: when the listing of init_network holds no network of the external
\* name, the operation ends by an uncaught IndexError instead of returning
\* false; the private network and the subnet of this invocation have been
\* created and stay, no router is created and no interface is attached.
C6_Case(rec, listing) ==
    /\ rec.op = "init_network"
    /\ Completed(rec, 4)
    /\ \A i \in 1..Len(listing) : listing[i].name # rec.args[2]

C6_Crash ==
    C6_Case(last, networks) =>
        /\ last.result = "raise"
        /\ last.exc = "IndexError"
        /\ Len(last.calls) = 4

C6_Left ==
    C6_Case(last', networks') =>
        /\ GrewBy(networks, networks', 1)
        /\ networks'[Len(networks')].name = "private"
        /\ networks'[Len(networks')].project_id = ProjId(last'.args[1])
        /\ GrewBy(subnets, subnets', 1)
        /\ subnets'[Len(subnets')].network_id = networks'[Len(networks')].id
        /\ routers' = routers
        /\ interfaces' = interfaces

C6_NoExternalNetwork == [](C6_Crash) /\ [][C6_Left]_vars

C6_Witness ==
    /\ C6_Case(last, networks)
    /\ last.args[2] = "nope"
    /\ last.exc = "IndexError"
    /\ Len(PrivateNets) = 1
    /\ Len(subnets) = 1

\* ------------------------------------------------------------------- C7
\* C7: add_ssh_rule for an existing project, when no listed security group
\* has that project's id as its project scope, returns true and creates no
\* rule.
C7_Case(rec) ==
    /\ rec.op = "add_ssh_rule"
    /\ rec.args[1] \in projects
    /\ Completed(rec, 2)
    /\ \A i \in 1..Len(secgroups) :
          secgroups[i].project_id # ProjId(rec.args[1])

C7_Returns ==
    C7_Case(last) =>
        /\ last.result = "True"
        /\ ~Issued(last, "create_security_group_rule")

C7_NoRule == C7_Case(last') => rules' = rules

C7_SilentNoOp == [](C7_Returns) /\ [][C7_NoRule]_vars

\* Groups are listed, none of them the project's.
C7_Witness ==
    /\ C7_Case(last)
    /\ secgroups # << >>
    /\ last.result = "True"

\* ------------------------------------------------------------------- C8
\* C8 as claimed: every project has at most one private network, subnet,
\* router and interface created by the client, exactly one of each once
\* init_network has returned true for it, however often init_network ran.
NetsOf(p) == SelectSeq(networks, LAMBDA e :
                 e.name = "private" /\ e.project_id = ProjId(p))

SubnetsOf(p) == SelectSeq(subnets, LAMBDA e :
                 \E i \in 1..Len(networks) :
                    /\ networks[i].id = e.network_id
                    /\ networks[i].project_id = ProjId(p))

RoutersOf(p) == SelectSeq(routers, LAMBDA e : e.tenant_id = ProjId(p))

InterfacesOf(p) == SelectSeq(interfaces, LAMBDA e : e.tenant_id = ProjId(p))

C8_AtMostOne ==
    /\ \A p \in ProjNames :
          /\ Len(NetsOf(p)) <= 1
          /\ Len(SubnetsOf(p)) <= 1
          /\ Len(RoutersOf(p)) <= 1
          /\ Len(InterfacesOf(p)) <= 1
    /\ (last.op = "init_network" /\ last.result = "True") =>
          /\ Len(NetsOf(last.args[1])) = 1
          /\ Len(SubnetsOf(last.args[1])) = 1
          /\ Len(RoutersOf(last.args[1])) = 1
          /\ Len(InterfacesOf(last.args[1])) = 1

\* C8 amended: one invocation of init_network creates at most one private
\* network, subnet, router and interface, all of the named project, and
\* exactly one of each, linked to one another, when it returns true;
\* invocations add to what earlier ones left.
C8_Chain ==
    \A p \in ProjNames :
        /\ Len(InterfacesOf(p)) <= Len(RoutersOf(p))
        /\ Len(RoutersOf(p)) <= Len(SubnetsOf(p))
        /\ Len(SubnetsOf(p)) <= Len(NetsOf(p))

C8_OneEach ==
    last'.op = "init_network" =>
        /\ \E k \in 0..1 : GrewBy(networks, networks', k)
        /\ \E k \in 0..1 : GrewBy(subnets, subnets', k)
        /\ \E k \in 0..1 : GrewBy(routers, routers', k)
        /\ \E k \in 0..1 : GrewBy(interfaces, interfaces', k)
        /\ last'.result = "True" =>
              LET net == networks'[Len(networks')]
                  sub == subnets'[Len(subnets')]
                  rtr == routers'[Len(routers')]
                  ifc == interfaces'[Len(interfaces')]
                  pid == ProjId(last'.args[1])
              IN  /\ GrewBy(networks, networks', 1)
                  /\ GrewBy(subnets, subnets', 1)
                  /\ GrewBy(routers, routers', 1)
                  /\ GrewBy(interfaces, interfaces', 1)
                  /\ net.name = "private" /\ net.project_id = pid
                  /\ sub.network_id = net.id
                  /\ rtr.tenant_id = pid
                  /\ ifc.router_id = rtr.id /\ ifc.subnet_id = sub.id
                  /\ ifc.tenant_id = pid

C8_PerInvocation == [](C8_Chain) /\ [][C8_OneEach]_vars

\* init_network has returned true twice for the same project.
C8_Witness ==
    /\ last.op = "init_network"
    /\ last.result = "True"
    /\ Len(NetsOf(last.args[1])) = 2
    /\ Len(InterfacesOf(last.args[1])) = 2

\* ------------------------------------------------------------------- C9
\* C9: update_project_status, update_user_status, update_user_password and
\* init_network, when the named entity does not exist remotely (signalled
\* by NotFound or by a None result), return false and issue no remote call
\* after the lookup.
C9_Missing ==
    \/ /\ last.op \in {"update_project_status", "init_network"}
       /\ last.args[1] \notin projects
    \/ /\ last.op \in {"update_user_status", "update_user_password"}
       /\ last.args[1] \notin users

C9_NoMutationOnMissing ==
    C9_Missing => last.result = "False" /\ Len(last.calls) = 1

\* ------------------------------------------------------------------ C10
\* C10 as claimed: an add_ssh_rule invocation creates at most one rule, any
\* rule it creates is on a group whose project scope is the named
\* project's id, and when several listed groups match exactly one rule is
\* created, on the last matching group of the listing.
GroupsOf(p) == {i \in 1..Len(secgroups) : secgroups[i].project_id = ProjId(p)}

LastGroupOf(p) ==
    secgroups[CHOOSE i \in GroupsOf(p) : \A j \in GroupsOf(p) : j <= i].id

C10_Several(rec) ==
    /\ rec.op = "add_ssh_rule"
    /\ rec.args[1] \in projects
    /\ Completed(rec, 2)
    /\ Cardinality(GroupsOf(rec.args[1])) >= 2

C10_AtMostOne ==
    last'.op = "add_ssh_rule" =>
        /\ \E k \in 0..1 : GrewBy(rules, rules', k)
        /\ Len(rules') > Len(rules) =>
              /\ \E i \in GroupsOf(last'.args[1]) :
                    rules'[Len(rules')].security_group_id = secgroups[i].id
              /\ rules'[Len(rules')].project_id = ProjId(last'.args[1])

C10_OneRuleCreated ==
    C10_Several(last') =>
        /\ GrewBy(rules, rules', 1)
        /\ rules'[Len(rules')].security_group_id = LastGroupOf(last'.args[1])

C10_ExactlyOne == [][C10_AtMostOne /\ C10_OneRuleCreated]_vars

\* C10 amended: as above, but when several listed groups match, exactly one
\* create call is issued, for the last matching group, and the rule exists
\* exactly when that call succeeds.
C10_OneCallIssued ==
    C10_Several(last') =>
        /\ Len(last'.calls) = 3
        /\ last'.calls[3] = Call("create_security_group_rule",
                                 LastGroupOf(last'.args[1]))
        /\ Completed(last', 3) <=> last'.result = "True"
        /\ IF Completed(last', 3)
           THEN /\ GrewBy(rules, rules', 1)
                /\ rules'[Len(rules')].security_group_id =
                      LastGroupOf(last'.args[1])
           ELSE rules' = rules

C10_OneCall == [][C10_AtMostOne /\ C10_OneCallIssued]_vars

\* Two groups of proj1 are listed (ids 1 and 3): the rule is on group 3.
C10_Witness ==
    /\ C10_Several(last)
    /\ last.result = "True"
    /\ rules # << >>
    /\ rules[Len(rules)].security_group_id = 3

====
